---------------------------- MODULE Spec2Model ----------------------------
(***************************************************************************)
(* A model of the PDF -> PPTX rebuild service.                             *)
(*                                                                         *)
(*   src/main.py                      rebuild_pptx, process_single_slide   *)
(*   src/services/vision_processor.py crop_figures_from_slide              *)
(*   src/services/ppt_builder.py      generate_pptx, _add_body_text,       *)
(*                                    _add_centered_image, _add_image_at   *)
(*                                                                         *)
(* Four specifications share the module:                                    *)
(*   Spec      the /rebuild request: conversion, the 3-worker pool, the    *)
(*             gather, the sort by _idx, the empty check, generate_pptx;   *)
(*   SpecCrop  crop_figures_from_slide, one loop iteration per step;       *)
(*   SpecSlide one page: process_single_slide, then generate_pptx on it;   *)
(*   SpecFit   one call of _add_centered_image or _add_image_at on a       *)
(*             figure of any native size.                                  *)
(*                                                                         *)
(* Python values are modelled as follows.  A dict entry is a record        *)
(* [st, v]: st = "absent" (no such key), "null" (the key holds None),      *)
(* "val" (v is the value) or "bad" (a truthy value of the wrong type).     *)
(* Lengths on the slide are EMU (914400 to the inch), as python-pptx       *)
(* stores them; the strategies' inch arguments, all of which have one      *)
(* decimal, are written in tenths of an inch.  A float product that is     *)
(* rounded or truncated is computed exactly (MulDivRem) and then rounded   *)
(* or truncated.                                                           *)
(***************************************************************************)
EXTENDS Integers, Sequences, FiniteSets

VARIABLES
    \* ---- Spec: one /rebuild request (src/main.py)
    pc,          \* position of rebuild_pptx
    images,      \* list(convert_pdf_to_images(pdf_bytes))
    tasks,       \* the futures of run_in_executor, by position in `tasks`
    response,    \* what the caller receives
    deck,        \* the slides of the artifact sent back
    completed,   \* history: the positions of the futures in the order they finished
    \* ---- SpecCrop: one call of crop_figures_from_slide
    c_pc, original_image, figures, fig_i, processed_figures, outcome,
    \* ---- SpecSlide: one page through process_single_slide and generate_pptx
    s_pc, s_img, slide_analysis, s_slide,
    \* ---- SpecFit: one picture placed on an empty slide
    f_pc, f_figure, f_shapes

reqVars  == <<pc, images, tasks, response, deck, completed>>
cropVars == <<c_pc, original_image, figures, fig_i, processed_figures, outcome>>
slideVars == <<s_pc, s_img, slide_analysis, s_slide>>
fitVars == <<f_pc, f_figure, f_shapes>>
vars == <<reqVars, cropVars, slideVars, fitVars>>

----------------------------------------------------------------------------
(* Bounds of the model *)

MaxPages == 4
MaxFigs == 2
MaxBoxes == 3
MaxPixels == 24

(* Program constants *)

MaxWorkers == 3
BoxScale == 1000
EmuPerInch == 914400
SlideWidthIn == 10

----------------------------------------------------------------------------
(* Arithmetic *)

\* a * b = q * c + r with 0 <= r < c, for a, b >= 0 and c > 0, computed bit by
\* bit of a so that no intermediate value exceeds 3c + b.
RECURSIVE MulDivRem(_, _, _)
MulDivRem(a, b, c) ==
    IF a = 0 THEN [q |-> 0, r |-> 0]
    ELSE LET h == MulDivRem(a \div 2, b, c)
             odd == a % 2 = 1
             d == 2 * h.r + (IF odd THEN b % c ELSE 0)
         IN [q |-> 2 * h.q + (IF odd THEN b \div c ELSE 0) + d \div c,
             r |-> d % c]

\* int(x) of the float a * b / c (a, b >= 0, c > 0)
MulDivTrunc(a, b, c) == MulDivRem(a, b, c).q

\* Python's round(n / d), d > 0: to the nearest integer, a tie to the even one
RoundDiv(n, d) ==
    LET q == n \div d
        r == n % d
    IN IF 2 * r > d \/ (2 * r = d /\ q % 2 = 1) THEN q + 1 ELSE q

\* round() of the float a * b / c (a, b >= 0, c > 0)
MulDivRound(a, b, c) ==
    LET m == MulDivRem(a, b, c)
    IN IF 2 * m.r > c \/ (2 * m.r = c /\ m.q % 2 = 1) THEN m.q + 1 ELSE m.q

\* pptx.util.Inches(t / 10) = int(t / 10 * 914400)
Inches10(t) == (t * EmuPerInch) \div 10

----------------------------------------------------------------------------
(* crop_figures_from_slide  (src/services/vision_processor.py) *)

\* fig.get("box_2d"); `not box or len(box) != 4`
BoxRejected(fig) ==
    \/ ~fig.has_box
    \/ Len(fig.box) = 0
    \/ Len(fig.box) # 4

\* A faulty variant of PixelRect: the corners put in order before the crop
PixelRectOrdered(box, width, height) ==
    [left   |-> (IF box[2] < box[4] THEN box[2] ELSE box[4]) * width,
     top    |-> (IF box[1] < box[3] THEN box[1] ELSE box[3]) * height,
     right  |-> (IF box[2] < box[4] THEN box[4] ELSE box[2]) * width,
     bottom |-> (IF box[1] < box[3] THEN box[3] ELSE box[1]) * height]

\* Lines 131-137: the four pixel coordinates, as numerators over 1000
\* (left = (xmin / 1000) * width is Left1000 / 1000).
PixelRect(box, width, height) ==
    [left   |-> box[2] * width,
     top    |-> box[1] * height,
     right  |-> box[4] * width,
     bottom |-> box[3] * height]

\* Image.crop(box): PIL rounds each coordinate (_crop: map(int, map(round, box)))
\* and does not clip the box to the image.
CropBox(rect) ==
    [x0 |-> RoundDiv(rect.left, BoxScale),
     y0 |-> RoundDiv(rect.top, BoxScale),
     x1 |-> RoundDiv(rect.right, BoxScale),
     y1 |-> RoundDiv(rect.bottom, BoxScale)]

\* Whether crop() then save(format='PNG') raises on its own: crop() raises
\* ValueError for right < left or lower < upper (older PIL returns an empty
\* image instead), and the PNG encoder raises for an image with no pixels.
\* right < left implies x1 <= x0, so both builds fail exactly when the rounded
\* box is empty.
CropRaises(rect) ==
    LET b == CropBox(rect)
    IN b.x1 - b.x0 <= 0 \/ b.y1 - b.y0 <= 0

\* Lines 146-148: fig.copy() with image_bytes; the bytes are modelled by the
\* pixel size of the PNG and the box it was cut from.
FigCopy(fig, rect) ==
    LET b == CropBox(rect)
    IN [description |-> fig.description,
        has_box |-> fig.has_box,
        box |-> fig.box,
        image_bytes |-> [px |-> b.x1 - b.x0, py |-> b.y1 - b.y0, crop |-> b]]

\* A faulty variant of AppendFigure: processed_figures.insert(0, fig_copy)
PrependFigure(processed, fig_copy) == <<fig_copy>> \o processed

\* processed_figures.append(fig_copy)
AppendFigure(processed, fig_copy) == Append(processed, fig_copy)

\* One iteration of the loop at lines 126-151 on `fig`; io_error is an
\* exception of crop/save that does not come from the box (a source image
\* that fails to load).  Returns the new processed_figures and what happened.
CropOne(img, processed, fig, io_error) ==
    IF BoxRejected(fig)
    THEN [processed |-> processed, what |-> "skipped"]
    ELSE LET rect == PixelRect(fig.box, img.width, img.height)
         IN IF io_error \/ CropRaises(rect)
            THEN [processed |-> processed, what |-> "failed"]
            ELSE [processed |-> AppendFigure(processed, FigCopy(fig, rect)),
                  what |-> "kept"]

\* The whole call, no exception from outside the boxes.
RECURSIVE CropFrom(_, _, _, _)
CropFrom(img, figs, i, processed) ==
    IF i > Len(figs) THEN processed
    ELSE CropFrom(img, figs, i + 1, CropOne(img, processed, figs[i], FALSE).processed)

crop_figures_from_slide(img, figs) == CropFrom(img, figs, 1, <<>>)

----------------------------------------------------------------------------
(* Python dict access *)

Absent(x) == x.st = "absent"
IsNone(x) == x.st = "null"
Val(v) == [st |-> "val", v |-> v]

\* d.get(key, default): the default only when the key is missing; a key that
\* holds None yields None.
DictGet(entry, default) == IF Absent(entry) THEN Val(default) ELSE entry

\* truth value of a str / of a list (None is false)
TruthyStr(x) == x.st = "bad" \/ (x.st = "val" /\ x.v # "")
TruthySeq(x) == x.st = "bad" \/ (x.st = "val" /\ Len(x.v) > 0)

\* len(x) raises TypeError for None and for a value that has no length
LenRaises(x) == x.st \in {"null", "bad"}

----------------------------------------------------------------------------
(* generate_pptx and its helpers  (src/services/ppt_builder.py) *)

TextShape(kind, text, paragraphs, left, top, width, height, font_size) ==
    [kind |-> kind, text |-> text, paragraphs |-> paragraphs,
     left |-> left, top |-> top, width |-> width, height |-> height,
     font_size |-> font_size,
     fig |-> 0, px |-> 0, py |-> 0, slot_left |-> 0, max_width |-> 0, max_height |-> 0]

\* slide.shapes.add_picture(stream, Inches(left), Inches(top), width=Inches(max_width)):
\* the height follows from the native size (72 dpi: 12700 EMU per pixel on both
\* axes), scaled_cy = int(round(image_cy * (scaled_cx / image_cx))).
AddPicture(figure, left, top, max_width, max_height) ==
    LET w == Inches10(max_width)
        im == figure.image_bytes
    IN [kind |-> "pic", text |-> "", paragraphs |-> <<>>,
        left |-> Inches10(left), top |-> Inches10(top),
        width |-> w, height |-> MulDivRound(im.py, w, im.px),
        font_size |-> 0,
        fig |-> figure.description, px |-> im.px, py |-> im.py,
        slot_left |-> Inches10(left),
        max_width |-> Inches10(max_width), max_height |-> Inches10(max_height)]

\* pic.height.inches > max_height
TooTall(pic, max_height) == pic.height * 10 > max_height * EmuPerInch

\* A faulty variant of ScaleToFit: the shrink applied to the width alone
ScaleWidthOnly(pic, max_height) ==
    IF pic.height * 10 > max_height * EmuPerInch
    THEN [pic EXCEPT !.width = MulDivTrunc(pic.width, Inches10(max_height), pic.height)]
    ELSE pic

\* scale = max_height / pic.height.inches
\* pic.width = Emu(int(pic.width * scale)); pic.height = Emu(int(pic.height * scale))
ScaleToFit(pic, max_height) ==
    IF TooTall(pic, max_height)
    THEN [pic EXCEPT !.width = MulDivTrunc(pic.width, Inches10(max_height), pic.height),
                     !.height = MulDivTrunc(pic.height, Inches10(max_height), pic.height)]
    ELSE pic

\* pic.left = Inches((10 - pic.width.inches) / 2)
Recenter(pic) == [pic EXCEPT !.left = (SlideWidthIn * EmuPerInch - pic.width) \div 2]

\* _add_image_at(slide, figure, left, top, max_width, max_height)
\* (shapes: the slide's shapes so far)
AddImageAt(shapes, figure, left, top, max_width, max_height) ==
    IF "image_bytes" \notin DOMAIN figure THEN shapes
    ELSE Append(shapes,
                ScaleToFit(AddPicture(figure, left, top, max_width, max_height),
                           max_height))

\* _add_centered_image(slide, figure, top, max_width, max_height);
\* left = (10 - max_width) / 2, and the re-centering only after a shrink
AddCenteredImage(shapes, figure, top, max_width, max_height) ==
    IF "image_bytes" \notin DOMAIN figure THEN shapes
    ELSE LET p0 == [AddPicture(figure, 0, top, max_width, max_height)
                        EXCEPT !.left = ((SlideWidthIn * 10 - max_width) * EmuPerInch) \div 20,
                               !.slot_left = ((SlideWidthIn * 10 - max_width) * EmuPerInch) \div 20]
         IN Append(shapes,
                   IF TooTall(p0, max_height)
                   THEN Recenter(ScaleToFit(p0, max_height))
                   ELSE p0)

RECURSIVE TotalChars(_)
TotalChars(items) ==
    IF items = <<>> THEN 0
    ELSE items[1].chars + items[1].pad + TotalChars(Tail(items))

Min(a, b) == IF a < b THEN a ELSE b

\* Lines 106-113: the font size as a step function of the character count
FontSize(total_chars, font_size) ==
    IF total_chars > 1000 THEN Min(font_size, 10)
    ELSE IF total_chars > 600 THEN Min(font_size, 11)
    ELSE IF total_chars > 400 THEN Min(font_size, 12)
    ELSE font_size

\* p.text = item.strip(): one paragraph per item, its padding removed
Stripped(items) == [i \in 1..Len(items) |-> [chars |-> items[i].chars, pad |-> 0]]

\* _add_body_text(slide, items, left, top, width, height, font_size)
AddBodyText(shapes, items, left, top, width, height, font_size) ==
    IF Len(items) = 0 THEN shapes
    ELSE Append(shapes,
                TextShape("text", "", Stripped(items),
                          Inches10(left), Inches10(top), Inches10(width), Inches10(height),
                          FontSize(TotalChars(items), font_size)))

\* " | ".join(body_text_list), as one item
Joined(items) ==
    <<[chars |-> TotalChars(items) + 3 * (Len(items) - 1), pad |-> 0]>>

\* Lines 34-45: the title band
AddTitle(shapes, title_text) ==
    IF TruthyStr(title_text)
    THEN Append(shapes, TextShape("title", title_text.v, <<>>,
                                  Inches10(5), Inches10(3), Inches10(90), Inches10(8), 28))
    ELSE shapes

\* A faulty variant of TwoColumn: the second figure at left=4.3 instead of 5.3
TwoColumnShifted(shapes, figs, body, has_figures, has_body) ==
    IF has_figures /\ Len(figs) >= 2
    THEN LET s1 == AddImageAt(shapes, figs[1], 5, 15, 42, 40)
             s2 == AddImageAt(s1, figs[2], 43, 15, 42, 40)
         IN IF has_body THEN AddBodyText(s2, body, 5, 57, 90, 15, 11) ELSE s2
    ELSE IF has_figures
    THEN AddImageAt(AddBodyText(shapes, body, 5, 13, 45, 55, 12), figs[1], 52, 15, 43, 50)
    ELSE AddBodyText(shapes, body, 5, 13, 90, 58, 13)

\* Lines 52-63
TwoColumn(shapes, figs, body, has_figures, has_body) ==
    IF has_figures /\ Len(figs) >= 2
    THEN LET s1 == AddImageAt(shapes, figs[1], 5, 15, 42, 40)
             s2 == AddImageAt(s1, figs[2], 53, 15, 42, 40)
         IN IF has_body THEN AddBodyText(s2, body, 5, 57, 90, 15, 11) ELSE s2
    ELSE IF has_figures
    THEN AddImageAt(AddBodyText(shapes, body, 5, 13, 45, 55, 12), figs[1], 52, 15, 43, 50)
    ELSE AddBodyText(shapes, body, 5, 13, 90, 58, 13)

\* Lines 65-70
DiagramHeavy(shapes, figs, body, has_figures, has_body) ==
    LET s1 == IF has_figures THEN AddCenteredImage(shapes, figs[1], 13, 90, 52) ELSE shapes
    IN IF has_body THEN AddBodyText(s1, Joined(body), 5, 65, 90, 8, 10) ELSE s1

\* Lines 72-79: title_and_content, mixed_freeform, or default
DefaultLayout(shapes, figs, body, has_figures, has_body) ==
    IF has_figures /\ has_body
    THEN AddImageAt(AddBodyText(shapes, body, 5, 13, 55, 58, 13), figs[1], 62, 15, 35, 50)
    ELSE IF has_figures THEN AddCenteredImage(shapes, figs[1], 15, 80, 55)
    ELSE IF has_body THEN AddBodyText(shapes, body, 5, 13, 90, 58, 14)
    ELSE shapes

\* Lines 47-79: the strategy by layout_type (l_type may be None)
Content(shapes, l_type, figs, body, has_figures, has_body) ==
    IF l_type.st = "val" /\ l_type.v = "title_only"
    THEN (IF has_figures THEN AddCenteredImage(shapes, figs[1], 15, 80, 55) ELSE shapes)
    ELSE IF l_type.st = "val" /\ l_type.v = "two_column"
    THEN TwoColumn(shapes, figs, body, has_figures, has_body)
    ELSE IF l_type.st = "val" /\ l_type.v = "diagram_heavy"
    THEN DiagramHeavy(shapes, figs, body, has_figures, has_body)
    ELSE DefaultLayout(shapes, figs, body, has_figures, has_body)

\* Lines 30-31: len(figures), len(body_text_list)
BuildRaises(fig_list, body_text_list) == LenRaises(fig_list) \/ LenRaises(body_text_list)

\* The body of the loop at lines 17-84 for one slide_data.  raised: an
\* exception left generate_pptx.  src: the page the description came from.
BuildSlide(slide_data) ==
    LET l_type == DictGet(slide_data.layout_type, "title_and_content")
        title_text == DictGet(slide_data.title, "")
        body_text_list == DictGet(slide_data.body_text, <<>>)
        fig_list == DictGet(slide_data.figures, <<>>)
        speaker_notes == DictGet(slide_data.speaker_notes, "")
    IN IF BuildRaises(fig_list, body_text_list)
       THEN [raised |-> TRUE, src |-> slide_data.page, l_type |-> l_type,
             shapes |-> <<>>, notes |-> ""]
       ELSE [raised |-> FALSE, src |-> slide_data.page, l_type |-> l_type,
             shapes |-> Content(AddTitle(<<>>, title_text), l_type,
                                fig_list.v, body_text_list.v,
                                Len(fig_list.v) > 0, Len(body_text_list.v) > 0),
             notes |-> IF TruthyStr(speaker_notes) THEN speaker_notes.v ELSE ""]

\* generate_pptx(slides_data): one slide per element, in the order given;
\* an exception in any slide leaves no artifact.
generate_pptx(slides_data) ==
    LET built == [i \in 1..Len(slides_data) |-> BuildSlide(slides_data[i])]
    IN IF \E i \in 1..Len(built) : built[i].raised
       THEN [raised |-> TRUE, slides |-> <<>>]
       ELSE [raised |-> FALSE, slides |-> built]

----------------------------------------------------------------------------
(* process_single_slide  (src/main.py) *)

\* Lines 43-50 on the dict that analyze_slide_image returned.  raised: an
\* exception left the worker (len() of a figures value that is no list).
process_single_slide(idx, img, analysis) ==
    LET figs == analysis.figures
    IN IF TruthySeq(figs)
       THEN IF LenRaises(figs)
            THEN [raised |-> TRUE, data |-> analysis]
            ELSE [raised |-> FALSE,
                  data |-> [analysis EXCEPT
                               !.figures = Val(crop_figures_from_slide(img, figs.v)),
                               !.idx = Val(idx)]]
       ELSE [raised |-> FALSE, data |-> [analysis EXCEPT !.idx = Val(idx)]]

----------------------------------------------------------------------------
(* The values the environment supplies *)

Fig(n, box) == [description |-> n, has_box |-> TRUE, box |-> box]
NoBox(n) == [description |-> n, has_box |-> FALSE, box |-> <<>>]

AbsentStr == [st |-> "absent", v |-> ""]
NoneStr == [st |-> "null", v |-> ""]
AbsentSeq == [st |-> "absent", v |-> <<>>]
NoneSeq == [st |-> "null", v |-> <<>>]
AbsentIdx == [st |-> "absent", v |-> 0]

Item(chars, pad) == [chars |-> chars, pad |-> pad]

\* The dict of one page: `page` records which page image it describes, and
\* idx is the "_idx" key.
Analysis(page, layout_type, title, body_text, figs, speaker_notes) ==
    [page |-> page, layout_type |-> layout_type, title |-> title,
     body_text |-> body_text, figures |-> figs, speaker_notes |-> speaker_notes,
     idx |-> AbsentIdx]

\* The fallback of analyze_slide_image (vision_processor.py lines 112-119)
Fallback(page) ==
    Analysis(page, Val("title_and_content"), Val("Error Processing Slide"),
             Val(<<Item(28, 0)>>), Val(<<>>), AbsentStr)

\* A dict with no key at all
EmptyAnalysis == Analysis(0, AbsentStr, AbsentStr, AbsentSeq, AbsentSeq, AbsentStr)

\* No slide built yet
NoSlide == [raised |-> FALSE, src |-> 0, l_type |-> AbsentStr, shapes |-> <<>>, notes |-> ""]

PageImage(n) == [id |-> n, width |-> 1000, height |-> 1500]

\* What analyze_slide_image may return for page n in the request model
PageAnalyses(n) ==
    { Analysis(n, Val("two_column"), Val("Old vs New"), Val(<<Item(7, 0), Item(7, 1)>>),
               Val(<<Fig(1, <<100, 50, 600, 450>>), Fig(2, <<100, 550, 600, 950>>)>>),
               AbsentStr),
      Fallback(n),
      Analysis(n, AbsentStr, AbsentStr, NoneSeq, AbsentSeq, AbsentStr),
      Analysis(n, Val("diagram_heavy"), Val("T"), AbsentSeq,
               [st |-> "bad", v |-> <<>>], AbsentStr) }

----------------------------------------------------------------------------
(* Spec: rebuild_pptx  (src/main.py) *)

NoResponse == [status |-> 0, detail |-> "none"]

\* raise HTTPException(status_code, detail)
HTTPException(status, detail) == [status |-> status, detail |-> detail]

\* Lines 112-116: `except Exception` around the whole body; HTTPException is
\* an Exception, so the 422 raised at line 99 is caught here as well.
ExceptHandler(exc) == HTTPException(500, "Internal Server Error")

Queued == [st |-> "queued", raised |-> FALSE, data |-> EmptyAnalysis]

\* Insertion of x into a list sorted by idx, after the elements with an equal
\* key (sorted() is stable); key = x.get("_idx", 0).
Key(x) == DictGet(x.idx, 0).v
RECURSIVE Insert(_, _)
Insert(sorted, x) ==
    IF sorted = <<>> THEN <<x>>
    ELSE IF Key(x) < Key(sorted[1]) THEN <<x>> \o sorted
    ELSE <<sorted[1]>> \o Insert(Tail(sorted), x)

RECURSIVE SortFrom(_, _, _)
SortFrom(results, i, acc) ==
    IF i > Len(results) THEN acc
    ELSE SortFrom(results, i + 1, Insert(acc, results[i]))

RECURSIVE Reversed(_)
Reversed(q) == IF q = <<>> THEN <<>> ELSE Append(Reversed(Tail(q)), q[1])

\* A faulty variant of SortedByIdx: sorted(..., reverse=True)
SortedByIdxReversed(results) == Reversed(SortFrom(results, 1, <<>>))

\* Line 88: sorted(results, key=lambda x: x.get("_idx", 0))
SortedByIdx(results) == SortFrom(results, 1, <<>>)

\* Lines 91-92: slide.pop("_idx", None)
PopIdx(slides) == [i \in 1..Len(slides) |-> [slides[i] EXCEPT !.idx = AbsentIdx]]

\* Line 85: asyncio.gather returns the results in the order of the awaitables
Gathered(ts) == [i \in 1..Len(ts) |-> ts[i].data]

\* Lines 88-110, after the gather: the response and the deck sent with it
Respond(results) ==
    LET slides_data == PopIdx(SortedByIdx(results))
    IN IF Len(slides_data) = 0
       THEN [response |-> ExceptHandler(HTTPException(422, "No slides could be processed from the PDF.")),
             deck |-> <<>>]
       ELSE LET out == generate_pptx(slides_data)
            IN IF out.raised
               THEN [response |-> ExceptHandler(HTTPException(500, "TypeError")),
                     deck |-> <<>>]
               ELSE [response |-> HTTPException(200, "pptx"), deck |-> out.slides]

ReqInit ==
    /\ pc = "start"
    /\ images = <<>>
    /\ tasks = <<>>
    /\ response = NoResponse
    /\ deck = <<>>
    /\ completed = <<>>

\* Lines 59-61: not a .pdf file name
RejectUpload ==
    /\ pc = "start"
    /\ pc' = "rejected"
    /\ response' = HTTPException(400, "Invalid file type. Please upload a PDF.")
    /\ UNCHANGED <<images, tasks, deck, completed>>
    /\ UNCHANGED <<cropVars, slideVars, fitVars>>

\* Lines 64-82: the PDF has n pages; every page is handed to the executor
Convert ==
    /\ pc = "start"
    /\ \E n \in 0..MaxPages :
          /\ images' = [i \in 1..n |-> PageImage(i)]
          /\ tasks' = [i \in 1..n |-> Queued]
    /\ pc' = "gather"
    /\ UNCHANGED <<response, deck, completed>>
    /\ UNCHANGED <<cropVars, slideVars, fitVars>>

\* Line 71 raises (no PDF): the handler at lines 112-116
ConvertFails ==
    /\ pc = "start"
    /\ pc' = "failed"
    /\ response' = ExceptHandler(HTTPException(500, "PDFPageCountError"))
    /\ UNCHANGED <<images, tasks, deck, completed>>
    /\ UNCHANGED <<cropVars, slideVars, fitVars>>

Running == {i \in 1..Len(tasks) : tasks[i].st = "running"}

\* A free worker of the pool takes the oldest queued work item
StartWorker(i) ==
    /\ tasks[i].st = "queued"
    /\ \A j \in 1..(i - 1) : tasks[j].st # "queued"
    /\ Cardinality(Running) < MaxWorkers
    /\ tasks' = [tasks EXCEPT ![i].st = "running"]
    /\ UNCHANGED <<pc, images, response, deck, completed>>
    /\ UNCHANGED <<cropVars, slideVars, fitVars>>

\* process_single_slide((i - 1, img, total)) returns or raises in its thread
FinishWorker(i) ==
    /\ tasks[i].st = "running"
    /\ \E a \in PageAnalyses(images[i].id) :
          LET r == process_single_slide(i - 1, images[i], a)
          IN tasks' = [tasks EXCEPT ![i] = [st |-> "done", raised |-> r.raised, data |-> r.data]]
    /\ completed' = Append(completed, i)
    /\ UNCHANGED <<pc, images, response, deck>>
    /\ UNCHANGED <<cropVars, slideVars, fitVars>>

\* What `await asyncio.gather(*tasks)` waits for before it returns
AllReturned(ts) == \A i \in 1..Len(ts) : ts[i].st = "done" /\ ~ts[i].raised

\* Line 85 returns: every future has a result.  Then lines 88-110.
GatherReturns ==
    /\ pc = "gather"
    /\ AllReturned(tasks)
    /\ LET r == Respond(Gathered(tasks))
       IN response' = r.response /\ deck' = r.deck
    /\ pc' = "answered"
    /\ UNCHANGED <<images, tasks, completed>>
    /\ UNCHANGED <<cropVars, slideVars, fitVars>>

\* Line 85 raises: gather propagates the first exception of a future while
\* the other workers go on; the handler at lines 112-116 answers.
GatherRaises ==
    /\ pc = "gather"
    /\ \E i \in 1..Len(tasks) : tasks[i].st = "done" /\ tasks[i].raised
    /\ response' = ExceptHandler(HTTPException(500, "TypeError"))
    /\ pc' = "answered"
    /\ UNCHANGED <<images, tasks, deck, completed>>
    /\ UNCHANGED <<cropVars, slideVars, fitVars>>

----------------------------------------------------------------------------
(* SpecCrop: crop_figures_from_slide, one figure per step *)

CropImages == { [id |-> 1, width |-> 1000, height |-> 1000],
                [id |-> 2, width |-> 100, height |-> 3300] }

\* box_2d as the vision model may send it: missing, empty, of the wrong
\* length, in range, outside [0, 1000], inverted, empty, tiny.
CropBoxes ==
    { <<>>,
      <<0, 0, 1000>>,
      <<0, 0, 1000, 1000>>,
      <<100, 50, 600, 450>>,
      <<-100, -50, 500, 1200>>,
      <<600, 450, 100, 50>>,
      <<500, 100, 500, 900>>,
      <<10, 10, 30, 30>>,
      <<0, 500, 1000, 501>> }

FigureLists(boxes, n) ==
    UNION { { [i \in 1..k |-> IF Len(f[i]) = 1 THEN NoBox(i) ELSE Fig(i, f[i])] :
                f \in [1..k -> boxes \cup {<<0>>}] } : k \in 0..n }

CropIdle ==
    /\ c_pc = "idle"
    /\ original_image = PageImage(0)
    /\ figures = <<>>
    /\ fig_i = 0
    /\ processed_figures = <<>>
    /\ outcome = <<>>

CropInit ==
    /\ c_pc = "loop"
    /\ original_image \in CropImages
    /\ figures \in FigureLists(CropBoxes, MaxBoxes)
    /\ fig_i = 1
    /\ processed_figures = <<>>
    /\ outcome = <<>>

\* One iteration of `for fig in figures` (lines 126-151)
CropStep ==
    /\ c_pc = "loop"
    /\ fig_i <= Len(figures)
    /\ \E io_error \in BOOLEAN :
          LET r == CropOne(original_image, processed_figures, figures[fig_i], io_error)
          IN /\ processed_figures' = r.processed
             /\ outcome' = Append(outcome, r.what)
    /\ fig_i' = fig_i + 1
    /\ UNCHANGED <<c_pc, original_image, figures>>
    /\ UNCHANGED <<reqVars, slideVars, fitVars>>

\* Line 153: return processed_figures
CropReturn ==
    /\ c_pc = "loop"
    /\ fig_i > Len(figures)
    /\ c_pc' = "returned"
    /\ UNCHANGED <<original_image, figures, fig_i, processed_figures, outcome>>
    /\ UNCHANGED <<reqVars, slideVars, fitVars>>

----------------------------------------------------------------------------
(* SpecSlide: one page through process_single_slide and generate_pptx *)

SlideBoxes ==
    { <<100, 50, 600, 450>>,
      <<100, 550, 600, 950>>,
      <<0, 400, 1000, 500>>,
      <<450, 0, 500, 1000>>,
      <<600, 450, 100, 50>> }

Layouts ==
    { AbsentStr, NoneStr, Val("title_only"), Val("two_column"), Val("diagram_heavy"),
      Val("hero_banner") }
Titles == { AbsentStr, NoneStr, Val("Old vs New") }
Bodies == { AbsentSeq, NoneSeq, Val(<<>>), Val(<<Item(7, 0), Item(420, 2)>>) }
Notes == { AbsentStr, NoneStr, Val("say hello") }
FigureValues ==
    { AbsentSeq, NoneSeq } \cup { Val(f) : f \in FigureLists(SlideBoxes, MaxFigs) }

SlideIdle ==
    /\ s_pc = "idle"
    /\ s_img = PageImage(0)
    /\ slide_analysis = EmptyAnalysis
    /\ s_slide = NoSlide

SlideInit ==
    /\ s_pc = "analyzed"
    /\ s_img = PageImage(1)
    /\ slide_analysis \in
          { Analysis(1, l, t, b, f, n) :
              l \in Layouts, t \in Titles, b \in Bodies, f \in FigureValues, n \in Notes }
    /\ s_slide = NoSlide

\* The worker: process_single_slide on what analyze_slide_image returned
ProcessSlide ==
    /\ s_pc = "analyzed"
    /\ LET r == process_single_slide(0, s_img, slide_analysis)
       IN /\ slide_analysis' = r.data
          /\ s_pc' = IF r.raised THEN "raised" ELSE "processed"
    /\ UNCHANGED <<s_img, s_slide>>
    /\ UNCHANGED <<reqVars, cropVars, fitVars>>

\* generate_pptx on the page (after the pop of "_idx")
GenerateSlide ==
    /\ s_pc = "processed"
    /\ LET out == generate_pptx(PopIdx(<<slide_analysis>>))
       IN /\ s_slide' = IF out.raised THEN s_slide ELSE out.slides[1]
          /\ s_pc' = IF out.raised THEN "raised" ELSE "built"
    /\ UNCHANGED <<s_img, slide_analysis>>
    /\ UNCHANGED <<reqVars, cropVars, fitVars>>

----------------------------------------------------------------------------
(* SpecFit: one picture placed by _add_centered_image or _add_image_at *)

\* A figure asset whose PNG is px by py pixels
Asset(px, py) ==
    [description |-> 1, has_box |-> TRUE, box |-> <<0, 0, 1000, 1000>>,
     image_bytes |-> [px |-> px, py |-> py,
                      crop |-> [x0 |-> 0, y0 |-> 0, x1 |-> px, y1 |-> py]]]

\* The arguments (top, max_width, max_height) of the calls of
\* _add_centered_image at lines 50, 67, 77, in tenths of an inch
CenteredCalls == { <<15, 80, 55>>, <<13, 90, 52>> }

\* The arguments (left, top, max_width, max_height) of the calls of
\* _add_image_at at lines 55, 56, 61, 75
AtCalls == { <<5, 15, 42, 40>>, <<53, 15, 42, 40>>, <<52, 15, 43, 50>>, <<62, 15, 35, 50>> }

FitIdle ==
    /\ f_pc = "idle"
    /\ f_figure = Asset(1, 1)
    /\ f_shapes = <<>>

FitInit ==
    /\ f_pc = "ready"
    /\ f_figure \in { Asset(px, py) : px \in 1..MaxPixels, py \in 1..MaxPixels }
    /\ f_shapes = <<>>

PlaceCentered ==
    /\ f_pc = "ready"
    /\ \E c \in CenteredCalls :
          f_shapes' = AddCenteredImage(<<>>, f_figure, c[1], c[2], c[3])
    /\ f_pc' = "placed"
    /\ UNCHANGED f_figure
    /\ UNCHANGED <<reqVars, cropVars, slideVars>>

PlaceAt ==
    /\ f_pc = "ready"
    /\ \E c \in AtCalls :
          f_shapes' = AddImageAt(<<>>, f_figure, c[1], c[2], c[3], c[4])
    /\ f_pc' = "placed"
    /\ UNCHANGED f_figure
    /\ UNCHANGED <<reqVars, cropVars, slideVars>>

----------------------------------------------------------------------------
(* The specifications *)

Init == ReqInit /\ CropIdle /\ SlideIdle /\ FitIdle
Next ==
    \/ RejectUpload
    \/ Convert
    \/ ConvertFails
    \/ \E i \in 1..Len(tasks) : StartWorker(i)
    \/ \E i \in 1..Len(tasks) : FinishWorker(i)
    \/ GatherReturns
    \/ GatherRaises
Spec == Init /\ [][Next]_vars

InitCrop == CropInit /\ ReqInit /\ SlideIdle /\ FitIdle
NextCrop == CropStep \/ CropReturn
SpecCrop == InitCrop /\ [][NextCrop]_vars

InitSlide == SlideInit /\ ReqInit /\ CropIdle /\ FitIdle
NextSlide == ProcessSlide \/ GenerateSlide
SpecSlide == InitSlide /\ [][NextSlide]_vars

InitFit == FitInit /\ ReqInit /\ CropIdle /\ SlideIdle
NextFit == PlaceCentered \/ PlaceAt
SpecFit == InitFit /\ [][NextFit]_vars

----------------------------------------------------------------------------
(* The claims *)

Abs(x) == IF x < 0 THEN -x ELSE x
Clamp(x, lo, hi) == IF x < lo THEN lo ELSE IF x > hi THEN hi ELSE x

\* C1. For every number N >= 1 of pages and every order in which the workers
\* finish, a deck that is sent back has exactly N slides and slide i is built
\* from the description of page i; no deck is built from some of the pages
\* only (without a 200 answer there is no deck).
C1_DeckMatchesPages ==
    /\ response.status = 200 =>
          /\ Len(images) >= 1
          /\ Len(deck) = Len(images)
          /\ \A i \in 1..Len(deck) : deck[i].src = images[i].id
    /\ response.status # 200 => deck = <<>>

\* C1 witness: more pages than workers, finished out of page order, deck sent
C1_OutOfOrderDeck ==
    /\ response.status = 200
    /\ Len(images) > MaxWorkers
    /\ \E i, j \in 1..Len(completed) : i < j /\ completed[i] > completed[j]

\* C2. With zero slide records the request fails with the empty-deck error
\* (the 422 of main.py line 99) reaching the caller, and no artifact is sent.
C2_EmptyDeckError ==
    (pc = "answered" /\ Len(images) = 0) =>
        (response.status = 422 /\ deck = <<>>)

Inverted(box) == Len(box) = 4 /\ (box[1] >= box[3] \/ box[2] >= box[4])

\* C3. A figure whose box has yMin >= yMax or xMin >= xMax is never in the
\* output list, whatever the image size.
C3_InvertedBoxExcluded ==
    \A i \in 1..Len(figures) :
        (i < fig_i /\ figures[i].has_box /\ Inverted(figures[i].box)) =>
            \A k \in 1..Len(processed_figures) : processed_figures[k].description # i

\* C3 witness: the call returned, an inverted box was among the figures and
\* another figure was kept
C3_InvertedSeen ==
    /\ c_pc = "returned"
    /\ \E i \in 1..Len(figures) : figures[i].has_box /\ Inverted(figures[i].box)
    /\ Len(processed_figures) >= 1

\* C4. A figure whose crop rectangle, mapped to pixels and clamped to the
\* image, is narrower or lower than 50 pixels is not in the output list.
C4_SmallCropExcluded ==
    \A k \in 1..Len(processed_figures) :
        LET b == processed_figures[k].image_bytes.crop
            w == Clamp(b.x1, 0, original_image.width) - Clamp(b.x0, 0, original_image.width)
            h == Clamp(b.y1, 0, original_image.height) - Clamp(b.y0, 0, original_image.height)
        IN w >= 50 /\ h >= 50

\* C5. The crop rectangle of every produced asset lies inside the page image:
\* x in [0, width], y in [0, height], also for boxes outside [0, 1000].
C5_CropInsideImage ==
    \A k \in 1..Len(processed_figures) :
        LET b == processed_figures[k].image_bytes.crop
        IN /\ 0 <= b.x0 /\ b.x1 <= original_image.width
           /\ 0 <= b.y0 /\ b.y1 <= original_image.height

KeptIndices ==
    SelectSeq([i \in 1..Len(outcome) |-> i], LAMBDA i : outcome[i] = "kept")

\* C6. A rejected figure, or one whose crop/encode step fails, is dropped and
\* the loop goes on: every figure before the loop position has been handled,
\* the call returns only after the last one, and the output is the surviving
\* figures, each with its own box, in their original relative order.
C6_SurvivorsInOrder ==
    /\ Len(outcome) = fig_i - 1
    /\ c_pc = "returned" => Len(outcome) = Len(figures)
    /\ Len(processed_figures) = Len(KeptIndices)
    /\ \A k \in 1..Len(processed_figures) :
          /\ processed_figures[k].description = KeptIndices[k]
          /\ processed_figures[k].box = figures[KeptIndices[k]].box
          /\ "image_bytes" \in DOMAIN processed_figures[k]

\* C6 witness: the call returned, a figure was dropped and a later one kept
C6_DroppedThenKept ==
    /\ c_pc = "returned"
    /\ \E i, j \in 1..Len(outcome) :
          i < j /\ outcome[i] = "failed" /\ outcome[j] = "kept"
    /\ \E i, j \in 1..Len(outcome) :
          i < j /\ outcome[i] = "skipped" /\ outcome[j] = "kept"

\* C7. Whatever fields of the description are absent or null, neither
\* process_single_slide nor generate_pptx raises.  (The descriptions of
\* SpecSlide have every field absent, null or well-typed.)
C7_NullFieldsAsEmpty == s_pc # "raised"

Pics(slide) == SelectSeq(slide.shapes, LAMBDA sh : sh.kind = "pic")
Texts(slide) == SelectSeq(slide.shapes, LAMBDA sh : sh.kind = "text")

DefaultBucket ==
    ~(slide_analysis.layout_type.st = "val"
      /\ slide_analysis.layout_type.v \in {"title_only", "two_column", "diagram_heavy"})

HasFigures == slide_analysis.figures.st = "val" /\ Len(slide_analysis.figures.v) > 0
HasBody == slide_analysis.body_text.st = "val" /\ Len(slide_analysis.body_text.v) > 0

\* The default strategy, on the slide that was built
DefaultStrategyShapes ==
    LET P == Pics(s_slide)
        T == Texts(s_slide)
    IN /\ HasFigures /\ HasBody =>
             /\ Len(P) = 1 /\ Len(T) = 1
             /\ P[1].fig = slide_analysis.figures.v[1].description
             /\ T[1].left + T[1].width <= P[1].left
       /\ HasFigures /\ ~HasBody =>
             /\ Len(P) = 1 /\ Len(T) = 0
             /\ P[1].fig = slide_analysis.figures.v[1].description
             /\ SlideWidthIn * EmuPerInch - (2 * P[1].left + P[1].width) \in {0, 1}
       /\ ~HasFigures /\ HasBody =>
             /\ Len(P) = 0 /\ Len(T) = 1
             /\ T[1].left = Inches10(5) /\ T[1].width = Inches10(90)
       /\ ~HasFigures /\ ~HasBody => Len(P) = 0 /\ Len(T) = 0

\* C8. A description whose layout_type is none of title_only, two_column,
\* diagram_heavy never makes generate_pptx raise, and its slide follows the
\* default strategy.
C8_DefaultStrategy ==
    DefaultBucket =>
        /\ s_pc # "raised"
        /\ s_pc = "built" => DefaultStrategyShapes

\* The part of C8 that the code keeps: a built slide of the default bucket
\* follows the default strategy.
C8_DefaultStrategyWhenBuilt ==
    (DefaultBucket /\ s_pc = "built") => DefaultStrategyShapes

\* The native aspect ratio, up to one EMU of rounding in one dimension
AspectKept(p) ==
    \/ Abs(p.height - MulDivRound(p.py, p.width, p.px)) <= 1
    \/ Abs(p.width - MulDivRound(p.px, p.height, p.py)) <= 1

\* C9. Every picture placed by _add_centered_image or _add_image_at, whatever
\* the native pixel size of the figure, is at most max_height high and
\* max_width wide, and keeps the native aspect ratio up to integer rounding.
C9_ImageFits ==
    f_pc = "placed" =>
        /\ Len(f_shapes) = 1
        /\ LET p == f_shapes[1]
           IN /\ p.height <= p.max_height
              /\ p.width <= p.max_width
              /\ p.width > 0 /\ p.height > 0
              /\ AspectKept(p)

\* C9 witness: a picture that was shrunk to the height limit
C9_ShrunkPicture ==
    /\ f_pc = "placed"
    /\ Len(f_shapes) = 1
    /\ f_shapes[1].width < f_shapes[1].max_width
    /\ f_shapes[1].height = f_shapes[1].max_height

\* The same on the slides of SpecSlide
PicturesFit ==
    s_pc = "built" =>
        \A k \in 1..Len(Pics(s_slide)) :
            LET p == Pics(s_slide)[k]
            IN p.height <= p.max_height /\ p.width <= p.max_width /\ AspectKept(p)

TwoColumnTwoFigures ==
    /\ s_pc = "built"
    /\ slide_analysis.layout_type = Val("two_column")
    /\ slide_analysis.figures.st = "val"
    /\ Len(slide_analysis.figures.v) = 2

\* C10 as stated: the two pictures of a two_column slide with two surviving
\* figures are disjoint rectangles of equal width.
C10_EqualWidthPlacements ==
    TwoColumnTwoFigures =>
        LET P == Pics(s_slide)
        IN /\ Len(P) = 2
           /\ P[1].left + P[1].width <= P[2].left
           /\ P[1].width = P[2].width

\* C10 as amended: the two pictures lie in two disjoint slots of equal width
\* (each starts at its slot's left edge and is no wider than the slot), so
\* they never overlap; their own widths need not be equal.
C10_DisjointEqualSlots ==
    TwoColumnTwoFigures =>
        LET P == Pics(s_slide)
        IN /\ Len(P) = 2
           /\ P[1].max_width = P[2].max_width
           /\ P[1].slot_left + P[1].max_width <= P[2].slot_left
           /\ \A k \in 1..2 : /\ P[k].left = P[k].slot_left
                              /\ P[k].width <= P[k].max_width
                              /\ P[k].height <= P[k].max_height
           /\ P[1].top = P[2].top
           /\ P[1].left + P[1].width <= P[2].left

\* C10 witness: two pictures of different widths on a two_column slide
C10_UnequalWidths ==
    /\ TwoColumnTwoFigures
    /\ Len(Pics(s_slide)) = 2
    /\ Pics(s_slide)[1].width # Pics(s_slide)[2].width

============================================================================
